---------------------------- MODULE Spec2Model ----------------------------
(***************************************************************************)
(* A model of sc2reader/objects.py: the Team container, the Attribute      *)
(* resolver, the Entity / Player / User constructors with the Observer,    *)
(* Computer and Participant classes built from them, and the MapInfo       *)
(* decoder.                                                                *)
(*                                                                         *)
(* Conventions.                                                            *)
(*  - A Python string is a sequence of character codes, so that split,     *)
(*    strip, reversal, upper(), int() and lexicographic sorting are        *)
(*    computed the way the code computes them.  "us" is <<117, 115>>.      *)
(*  - None is the one-element sequence <<-1>>, which is no string.         *)
(*  - An object is [cls |-> class name, dict |-> its __dict__], the        *)
(*    __dict__ being a function from attribute names to values.  An        *)
(*    attribute that was never assigned is not in the domain.              *)
(*  - A call returns [exc |-> "" or the exception raised, ...].            *)
(***************************************************************************)
EXTENDS Integers, Sequences, FiniteSets, TLC

VARIABLES
    participant,    \* the last composition: its inputs, the exception, the object
    attribute,      \* the last Attribute(...) call: its inputs and result
    mapinfo,        \* the last MapInfo(contents) call: contents, cursor, result
    team,           \* a Team object: number, players, result
    teamread        \* the last read of a Team property: lineup or hash

vars == <<participant, attribute, mapinfo, team, teamread>>

---------------------------------------------------------------------------
(* Bounds of the model.                                                    *)

\* Region codes 0..MaxRegionCode are used to build account handles.
MaxRegionCode == 4
\* A Team holds at most MaxTeam players.
MaxTeam == 3
\* A raw attribute value has at most MaxRaw characters.
MaxRaw == 4
\* MapInfo buffers carry the format versions 23 (0x17) to MaxVersion.
MaxVersion == 32
\* MapInfo buffers carry a player count of at most MaxPlayers.
MaxPlayers == 2

---------------------------------------------------------------------------
(* Python values.                                                          *)

None == <<-1>>

\* Python truthiness of a string-or-None value: None and "" are falsy.
Falsy(v) == v = None \/ v = <<>>

EmptyDict == [a \in {} |-> 0]

\* d[k] = v on a __dict__: the later assignment wins.
SetAttr(d, k, v) == (k :> v) @@ d

\* Character codes used by the code's literals.
DASH == 45
NUL == 0
SPACE == 32

IsDigit(c) == c >= 48 /\ c <= 57

\* str.upper() on one character (ASCII letters; other codes are unchanged).
Upper(c) == IF c >= 97 /\ c <= 122 THEN c - 32 ELSE c

\* s[::-1]
Reverse(s) == [i \in 1..Len(s) |-> s[Len(s) + 1 - i]]

RECURSIVE LStrip(_, _)
LStrip(s, chars) ==
    IF s # <<>> /\ Head(s) \in chars THEN LStrip(Tail(s), chars) ELSE s

RECURSIVE RStrip(_, _)
RStrip(s, chars) ==
    IF s # <<>> /\ s[Len(s)] \in chars
    THEN RStrip(SubSeq(s, 1, Len(s) - 1), chars)
    ELSE s

\* s.strip(chars): removes leading and trailing characters that are in chars.
Strip(s, chars) == RStrip(LStrip(s, chars), chars)

\* s.split(sep) for a one-character separator: always at least one part.
RECURSIVE SplitFrom(_, _, _)
SplitFrom(s, sep, cur) ==
    IF s = <<>> THEN <<cur>>
    ELSE IF Head(s) = sep THEN <<cur>> \o SplitFrom(Tail(s), sep, <<>>)
    ELSE SplitFrom(Tail(s), sep, Append(cur, Head(s)))

Split(s, sep) == SplitFrom(s, sep, <<>>)

\* int(s) accepts a non-empty string of decimal digits (the handles of the
\* model hold digits, letters and dashes only); anything else is ValueError.
IsInt(s) == s # <<>> /\ \A i \in 1..Len(s) : IsDigit(s[i])

RECURSIVE IntOf(_)
IntOf(s) ==
    IF s = <<>> THEN 0
    ELSE 10 * IntOf(SubSeq(s, 1, Len(s) - 1)) + (s[Len(s)] - 48)

\* "{0}".format(n) for a natural number: its decimal digits.
RECURSIVE Str(_)
Str(n) == IF n < 10 THEN <<48 + n>> ELSE Str(n \div 10) \o <<48 + (n % 10)>>

\* Lexicographic order on strings by code point: a < b.
RECURSIVE StrLess(_, _)
StrLess(a, b) ==
    IF b = <<>> THEN FALSE
    ELSE IF a = <<>> THEN TRUE
    ELSE IF Head(a) # Head(b) THEN Head(a) < Head(b)
    ELSE StrLess(Tail(a), Tail(b))

\* sorted(xs) for a list of strings: stable insertion into a sorted list.
RECURSIVE InsertStr(_, _)
InsertStr(x, sorted) ==
    IF sorted = <<>> THEN <<x>>
    ELSE IF StrLess(x, Head(sorted)) THEN <<x>> \o sorted
    ELSE <<Head(sorted)>> \o InsertStr(x, Tail(sorted))

RECURSIVE SortedStrs(_)
SortedStrs(xs) ==
    IF xs = <<>> THEN <<>>
    ELSE InsertStr(xs[Len(xs)], SortedStrs(SubSeq(xs, 1, Len(xs) - 1)))

\* sep.join(xs)
RECURSIVE Join(_, _)
Join(sep, xs) ==
    IF xs = <<>> THEN <<>>
    ELSE IF Len(xs) = 1 THEN xs[1]
    ELSE xs[1] \o sep \o Join(sep, Tail(xs))

---------------------------------------------------------------------------
(* Lookup tables of sc2reader.constants (not in objects.py): static        *)
(* mappings from codes to names, subscripted or .get()-ed by the code.     *)

\* GATEWAY_LOOKUP: region code -> region name.  0: '', 1: 'us', 2: 'eu', 3: 'kr',
\* 5: 'cn', 6: 'sea', 98: 'xx'.  Code 4 is in no table.
GATEWAY_LOOKUP == (0 :> <<>>) @@ (1 :> <<117, 115>>) @@ (2 :> <<101, 117>>)
                  @@ (3 :> <<107, 114>>) @@ (5 :> <<99, 110>>)
                  @@ (6 :> <<115, 101, 97>>) @@ (98 :> <<120, 120>>)

\* LOCALIZED_RACES: localized race name -> English race name.
\* 'Terran', 'Protoss', 'Zerg' map to themselves, 'Terraner' to 'Terran'.
LOCALIZED_RACES ==
    (<<84, 101, 114, 114, 97, 110>> :> <<84, 101, 114, 114, 97, 110>>)
    @@ (<<80, 114, 111, 116, 111, 115, 115>> :> <<80, 114, 111, 116, 111, 115, 115>>)
    @@ (<<90, 101, 114, 103>> :> <<90, 101, 114, 103>>)
    @@ (<<84, 101, 114, 114, 97, 110, 101, 114>> :> <<84, 101, 114, 114, 97, 110>>)

\* dict.get(key, default)
Get(d, k, default) == IF k \in DOMAIN d THEN d[k] ELSE default

\* utils.Color(**channels): the color object built from the four channels.
Color(c) == [r |-> c.r, g |-> c.g, b |-> c.b, a |-> c.a]

---------------------------------------------------------------------------
(* Entity, Player, User and the three classes built from them.             *)
(* Each __init__ takes the __dict__ so far and returns [exc, dict].        *)

\* "0-S2-0-0"
ZeroHandle == <<48, 45, 83, 50, 45, 48, 45, 48>>

\* The handle that is split: self.toon_handle or "0-S2-0-0".
HandleOrZero(toon_handle) == IF Falsy(toon_handle) THEN ZeroHandle ELSE toon_handle

\* The exception, if any, raised by lines 130-145 on the parts of a handle:
\* int(parts[0]), GATEWAY_LOOKUP[...], int(parts[2]), int(parts[3]) in order.
HandleExc(parts) ==
    IF ~ IsInt(parts[1]) THEN "ValueError"
    ELSE IF IntOf(parts[1]) \notin DOMAIN GATEWAY_LOOKUP THEN "KeyError"
    ELSE IF Len(parts) < 3 THEN "IndexError"
    ELSE IF ~ IsInt(parts[3]) THEN "ValueError"
    ELSE IF Len(parts) < 4 THEN "IndexError"
    ELSE IF ~ IsInt(parts[4]) THEN "ValueError"
    ELSE ""

\* self.region = GATEWAY_LOOKUP[int(parts[0])]
HandleRegion(parts) == GATEWAY_LOOKUP[IntOf(parts[1])]

\* self.subregion = int(parts[2])
HandleSubregion(parts) == IntOf(parts[3])

HandleToonIdFromSubregionPart(parts) == IntOf(parts[3])

\* self.toon_id = int(parts[3])
HandleToonId(parts) == IntOf(parts[4])

EntityInit(d, sid, slot_data) ==
    LET toon_handle == HandleOrZero(slot_data.toon_handle)
        parts == Split(toon_handle, DASH)
        exc == HandleExc(parts)
        region == HandleRegion(parts)
    IN  IF exc # "" THEN [exc |-> exc, dict |-> d]
        ELSE [exc |-> "",
              dict |->
                  [a \in {"sid", "slot_data", "handicap", "team_id", "is_human",
                          "is_observer", "is_referee", "hero_name", "hero_skin",
                          "hero_mount", "toon_handle", "region", "gateway",
                          "subregion", "toon_id", "archon_leader_id", "events",
                          "messages"} |->
                      CASE a = "sid" -> sid
                        [] a = "slot_data" -> slot_data
                        [] a = "handicap" -> slot_data.handicap
                        [] a = "team_id" -> slot_data.team_id + 1
                        [] a = "is_human" -> (slot_data.control = 2)
                        [] a = "is_observer" -> (slot_data.observe # 0)
                        [] a = "is_referee" -> (slot_data.observe = 2)
                        [] a = "hero_name" -> slot_data.hero
                        [] a = "hero_skin" -> slot_data.skin
                        [] a = "hero_mount" -> slot_data.mount
                        [] a = "toon_handle" -> slot_data.toon_handle
                        [] a = "region" -> region
                        [] a = "gateway" -> region
                        [] a = "subregion" -> HandleSubregion(parts)
                        [] a = "toon_id" -> HandleToonId(parts)
                        [] a = "archon_leader_id" -> slot_data.tandem_leader_user_id
                        [] a = "events" -> <<>>
                        [] a = "messages" -> <<>>] @@ d]

\* "Win", "Loss"
WIN == <<87, 105, 110>>
LOSS == <<76, 111, 115, 115>>
\* "Unknown"
UNKNOWN == <<85, 110, 107, 110, 111, 119, 110>>

PlayerInit(d, pid, detail_data, attribute_data) ==
    IF detail_data.bnet.region \notin DOMAIN GATEWAY_LOOKUP
    THEN [exc |-> "KeyError", dict |-> d]
    ELSE [exc |-> "",
          dict |->
              [a \in {"pid", "detail_data", "attribute_data", "result", "team",
                      "pick_race", "difficulty", "play_race", "color", "units",
                      "killed_units", "region", "gateway", "subregion",
                      "toon_id"} |->
                  CASE a = "pid" -> pid
                    [] a = "detail_data" -> detail_data
                    [] a = "attribute_data" -> attribute_data
                    [] a = "result" -> IF detail_data.result = 1 THEN WIN
                                       ELSE IF detail_data.result = 2 THEN LOSS
                                       ELSE None
                    [] a = "team" -> None
                    [] a = "pick_race" -> Get(attribute_data, "Race", UNKNOWN)
                    [] a = "difficulty" -> Get(attribute_data, "Difficulty", UNKNOWN)
                    [] a = "play_race" ->
                           Get(LOCALIZED_RACES, detail_data.race, detail_data.race)
                    [] a = "color" -> Color(detail_data.color)
                    [] a = "units" -> <<>>
                    [] a = "killed_units" -> <<>>
                    [] a = "region" -> GATEWAY_LOOKUP[detail_data.bnet.region]
                    [] a = "gateway" -> GATEWAY_LOOKUP[detail_data.bnet.region]
                    [] a = "subregion" -> detail_data.bnet.subregion
                    [] a = "toon_id" -> detail_data.bnet.uid] @@ d]

UserInit(d, uid, init_data) ==
    [exc |-> "",
     dict |->
         [a \in {"uid", "init_data", "clan_tag", "name", "combined_race_levels",
                 "highest_league", "recorder"} |->
             CASE a = "uid" -> uid
               [] a = "init_data" -> init_data
               [] a = "clan_tag" -> init_data.clan_tag
               [] a = "name" -> init_data.name
               [] a = "combined_race_levels" -> init_data.combined_race_levels
               [] a = "highest_league" -> init_data.highest_league
               [] a = "recorder" -> None] @@ d]

\* Run the next __init__ of a class unless an earlier one raised.
Then(prev, next) == IF prev.exc # "" THEN prev ELSE next

ObserverInit(sid, slot_data, uid, init_data, pid) ==
    LET e == EntityInit(EmptyDict, sid, slot_data)
        u == Then(e, UserInit(e.dict, uid, init_data))
    IN  IF u.exc # "" THEN [exc |-> u.exc, cls |-> "", dict |-> EmptyDict]
        ELSE [exc |-> "", cls |-> "Observer", dict |-> SetAttr(u.dict, "pid", pid)]

ComputerInit(sid, slot_data, pid, detail_data, attribute_data) ==
    LET e == EntityInit(EmptyDict, sid, slot_data)
        p == Then(e, PlayerInit(e.dict, pid, detail_data, attribute_data))
    IN  IF p.exc # "" THEN [exc |-> p.exc, cls |-> "", dict |-> EmptyDict]
        ELSE [exc |-> "", cls |-> "Computer",
              dict |-> SetAttr(p.dict, "name", detail_data.name)]

ParticipantInitWithoutPlayer(sid, slot_data, uid, init_data, pid, detail_data, attribute_data) ==
    LET e == EntityInit(EmptyDict, sid, slot_data)
        u == Then(e, UserInit(e.dict, uid, init_data))
    IN  IF u.exc # "" THEN [exc |-> u.exc, cls |-> "", dict |-> EmptyDict]
        ELSE [exc |-> "", cls |-> "Participant", dict |-> u.dict]

ParticipantInit(sid, slot_data, uid, init_data, pid, detail_data, attribute_data) ==
    LET e == EntityInit(EmptyDict, sid, slot_data)
        u == Then(e, UserInit(e.dict, uid, init_data))
        p == Then(u, PlayerInit(u.dict, pid, detail_data, attribute_data))
    IN  IF p.exc # "" THEN [exc |-> p.exc, cls |-> "", dict |-> EmptyDict]
        ELSE [exc |-> "", cls |-> "Participant", dict |-> p.dict]

---------------------------------------------------------------------------
(* User.url and Team.                                                      *)

\* The classes that inherit the url property from User.
UserClasses == {"Observer", "Participant"}

\* URL_TEMPLATE.format(**self.__dict__):
\* "http://{region}.battle.net/sc2/en/profile/{toon_id}/{subregion}/{name}/"
Url(d) ==
    <<104, 116, 116, 112, 58, 47, 47>> \o d["region"]
    \o <<46, 98, 97, 116, 116, 108, 101, 46, 110, 101, 116, 47, 115, 99, 50, 47,
         101, 110, 47, 112, 114, 111, 102, 105, 108, 101, 47>>
    \o Str(d["toon_id"]) \o <<47>> \o Str(d["subregion"]) \o <<47>>
    \o d["name"] \o <<47>>

\* hashlib.sha256(raw).hexdigest(): a digest that differs for different
\* inputs, kept as the input under a tag that no string starts with.
Sha256Hex(raw) == <<-256>> \o raw

\* Team(number)
TeamInit(number) == [number |-> number, players |-> <<>>, result |-> UNKNOWN]

\* p.play_race[0].upper()
RaceInitial(p) == <<Upper(p.dict["play_race"][1])>>

TeamLineupUnsorted(t) ==
    IF \E i \in 1..Len(t.players) : "play_race" \notin DOMAIN t.players[i].dict
    THEN [exc |-> "AttributeError", value |-> <<>>]
    ELSE IF \E i \in 1..Len(t.players) : t.players[i].dict["play_race"] = <<>>
    THEN [exc |-> "IndexError", value |-> <<>>]
    ELSE [exc |-> "",
          value |-> Join(<<>>, [i \in 1..Len(t.players) |-> RaceInitial(t.players[i])])]

\* Team.lineup
TeamLineup(t) ==
    IF \E i \in 1..Len(t.players) : "play_race" \notin DOMAIN t.players[i].dict
    THEN [exc |-> "AttributeError", value |-> <<>>]
    ELSE IF \E i \in 1..Len(t.players) : t.players[i].dict["play_race"] = <<>>
    THEN [exc |-> "IndexError", value |-> <<>>]
    ELSE [exc |-> "",
          value |-> Join(<<>>, SortedStrs([i \in 1..Len(t.players) |->
                                              RaceInitial(t.players[i])]))]

\* Team.hash over the members that have a url, the others left out.
TeamHashOfUsersOnly(t) ==
    LET users == SelectSeq(t.players, LAMBDA p : p.cls \in UserClasses)
    IN  [exc |-> "",
         value |-> Sha256Hex(Join(<<44>>, SortedStrs([i \in 1..Len(users) |->
                                                        Url(users[i].dict)])))]

\* Team.hash
TeamHash(t) ==
    IF \E i \in 1..Len(t.players) : t.players[i].cls \notin UserClasses
    THEN [exc |-> "AttributeError", value |-> <<>>]
    ELSE [exc |-> "",
          value |-> Sha256Hex(Join(<<44>>, SortedStrs([i \in 1..Len(t.players) |->
                                                         Url(t.players[i].dict)])))]

---------------------------------------------------------------------------
(* Attribute.                                                              *)

\* LOBBY_PROPERTIES of sc2reader.constants: attribute id -> (name, lookup).
\* 3004: ("Difficulty", {"EM": "Medium", "E": "Easy", "MM": "Insane"}).
LOBBY_PROPERTIES ==
    3004 :> [name |-> <<68, 105, 102, 102, 105, 99, 117, 108, 116, 121>>,
             lookup |-> (<<69, 77>> :> <<77, 101, 100, 105, 117, 109>>)
                        @@ (<<69>> :> <<69, 97, 115, 121>>)
                        @@ (<<77, 77>> :> <<73, 110, 115, 97, 110, 101>>)]

AttrKeyWithoutReversal(value) == Strip(value, {NUL, SPACE})

\* value.strip("\x00 ")[::-1]
AttrKey(value) == Reverse(Strip(value, {NUL, SPACE}))

AttributeInit(header, attr_id, player, value) ==
    LET d == [a \in {"header", "id", "player"} |->
                 CASE a = "header" -> header
                   [] a = "id" -> attr_id
                   [] a = "player" -> player]
    IN  IF attr_id \notin DOMAIN LOBBY_PROPERTIES
        THEN [exc |-> "", log |-> <<"info">>,
              dict |-> SetAttr(SetAttr(d, "name", UNKNOWN), "value", None)]
        ELSE LET lookup == LOBBY_PROPERTIES[attr_id].lookup
                 key == AttrKey(value)
             IN  IF key \notin DOMAIN lookup
                 THEN [exc |-> "KeyError", log |-> <<>>, dict |-> EmptyDict]
                 ELSE [exc |-> "", log |-> <<>>,
                       dict |-> SetAttr(SetAttr(d, "name", LOBBY_PROPERTIES[attr_id].name),
                                        "value", lookup[key])]

---------------------------------------------------------------------------
(* ByteDecoder (sc2reader.decoders, not in objects.py): a cursor over the  *)
(* bytes of contents.  A reader state is [pos, exc, dict, val]: the        *)
(* offset, the fault raised so far ("" for none), the __dict__ of the      *)
(* MapInfo being filled, and the value of the last read.  A read that      *)
(* needs more bytes than are left is the fault of a truncated buffer; a    *)
(* read after a fault does nothing.                                        *)

Fault(r) == [r EXCEPT !.exc = "FormatFault"]

\* data.read_bytes(n)
ReadBytes(buf, r, n) ==
    IF r.exc # "" THEN r
    ELSE IF r.pos + n > Len(buf) THEN Fault(r)
    ELSE [r EXCEPT !.pos = r.pos + n, !.val = SubSeq(buf, r.pos + 1, r.pos + n)]

\* data.read_string(n): n bytes, decoded (the bytes of the model are ASCII).
ReadString(buf, r, n) == ReadBytes(buf, r, n)

\* The little-endian value of a sequence of bytes.
RECURSIVE LittleEndian(_)
LittleEndian(bytes) ==
    IF bytes = <<>> THEN 0 ELSE Head(bytes) + 256 * LittleEndian(Tail(bytes))

\* The value of a sequence of bytes, each shifted in after the ones before it.
RECURSIVE BigEndian(_)
BigEndian(bytes) ==
    IF bytes = <<>> THEN 0
    ELSE 256 * BigEndian(SubSeq(bytes, 1, Len(bytes) - 1)) + bytes[Len(bytes)]

\* data.read_uint8(), data.read_uint16(), data.read_uint32(): little-endian.
ReadUintLE(buf, r, n) ==
    LET b == ReadBytes(buf, r, n)
    IN  IF b.exc # "" THEN b ELSE [b EXCEPT !.val = LittleEndian(b.val)]

ReadUint8(buf, r) == ReadUintLE(buf, r, 1)
ReadUint16(buf, r) == ReadUintLE(buf, r, 2)
ReadUint32(buf, r) == ReadUintLE(buf, r, 4)

\* data.read_uint(n): n bytes as one unsigned integer.
ReadUint(buf, r, n) ==
    LET b == ReadBytes(buf, r, n)
    IN  IF b.exc # "" THEN b ELSE [b EXCEPT !.val = BigEndian(b.val)]

\* data.read_cstring(): the bytes up to the next NUL, which is consumed.
ReadCString(buf, r) ==
    IF r.exc # "" THEN r
    ELSE LET ends == {i \in (r.pos + 1)..Len(buf) : buf[i] = NUL}
         IN  IF ends = {} THEN Fault(r)
             ELSE LET z == CHOOSE i \in ends : \A j \in ends : i <= j
                  IN  [r EXCEPT !.pos = z, !.val = SubSeq(buf, r.pos + 1, z - 1)]

\* self.<name> = <the value just read>
Assign(r, name) ==
    IF r.exc # "" THEN r ELSE [r EXCEPT !.dict = SetAttr(@, name, r.val)]

\* self.<name> = str()
AssignEmpty(r, name) ==
    IF r.exc # "" THEN r ELSE [r EXCEPT !.dict = SetAttr(@, name, <<>>)]

---------------------------------------------------------------------------
(* MapInfo.  The constructor is a straight run of reads and assignments;   *)
(* it is written here as the list of its statements, each a record         *)
(* [stmt, name, since] run by Step: the statement is executed when the     *)
(* version read first is at least since (0: always).                       *)

\* 'MapI'
MAGIC == <<77, 97, 112, 73>>

\* self.<name> = data.read_uint32()
U32(name) == [stmt |-> "uint32", name |-> name, since |-> 0, n |-> 0]
\* if self.version >= since: self.<name> = data.read_uint32()
U32Since(name, since) == [stmt |-> "uint32", name |-> name, since |-> since, n |-> 0]
\* self.<name> = data.read_cstring()
CStr(name) == [stmt |-> "cstring", name |-> name, since |-> 0, n |-> 0]
CStrSince(name, since) == [stmt |-> "cstring", name |-> name, since |-> since, n |-> 0]
\* if self.version >= since: self.<name> = data.read_bytes(n)
BytesSince(name, n, since) == [stmt |-> "bytes", name |-> name, since |-> since, n |-> n]
\* self.<name>_type = data.read_uint32(); self.<name>_path = str()
\* if self.<name>_type == 2: self.<name>_path = data.read_cstring()
Preview(name) == [stmt |-> "preview", name |-> name, since |-> 0, n |-> 0]
\* Any other statement, named by stmt.
Stmt(stmt, name) == [stmt |-> stmt, name |-> name, since |-> 0, n |-> 0]

\* The statements of lines 513-628 with the three byte blocks under the one
\* threshold 25 = 0x19.
HeaderStatementsOneBlockGate ==
    << U32("version"),
       U32Since("unknown1", 24), U32Since("unknown2", 24),
       U32("width"), U32("height"),
       Preview("small_preview"),
       Preview("large_preview"),
       CStrSince("unknown3", 31), U32Since("unknown4", 31),
       U32("unknown5"),
       CStr("fog_type"), CStr("tile_set"),
       U32("camera_left"), U32("camera_bottom"), U32("camera_right"),
       U32("camera_top"),
       Stmt("base_height", "base_height"),
       U32("load_screen_type"),
       CStr("load_screen_path"),
       Stmt("unknown6", "unknown6"),
       U32("load_screen_scaling"), U32("text_position"),
       U32("text_position_offset_x"), U32("text_position_offset_y"),
       U32("text_position_size_x"), U32("text_position_size_y"),
       U32("data_flags"),
       U32("unknown7"),
       BytesSince("unknown8", 8, 25),
       BytesSince("unknown9", 9, 25),
       BytesSince("unknown10", 4, 25),
       U32("player_count") >>

\* Lines 513-628: the statements from the version to the player count.
\* 24 = 0x18, 25 = 0x19, 31 = 0x1f, 32 = 0x20.
HeaderStatements ==
    << U32("version"),
       U32Since("unknown1", 24), U32Since("unknown2", 24),
       U32("width"), U32("height"),
       Preview("small_preview"),
       Preview("large_preview"),
       CStrSince("unknown3", 31), U32Since("unknown4", 31),
       U32("unknown5"),
       CStr("fog_type"), CStr("tile_set"),
       U32("camera_left"), U32("camera_bottom"), U32("camera_right"),
       U32("camera_top"),
       Stmt("base_height", "base_height"),
       U32("load_screen_type"),
       CStr("load_screen_path"),
       Stmt("unknown6", "unknown6"),
       U32("load_screen_scaling"), U32("text_position"),
       U32("text_position_offset_x"), U32("text_position_offset_y"),
       U32("text_position_size_x"), U32("text_position_size_y"),
       U32("data_flags"),
       U32("unknown7"),
       BytesSince("unknown8", 8, 25),
       BytesSince("unknown9", 9, 31),
       BytesSince("unknown10", 4, 32),
       U32("player_count") >>

\* Lines 634-711, which follow the return of line 632.
TailStatements ==
    << Stmt("players", "players"),
       Stmt("uint32list", "start_locations"),
       U32("start_location_used"),
       Stmt("flags", "alliance_flags"),
       Stmt("uint32list", "advanced_start_locations"),
       Stmt("uint32list", "advanced_teams_flags"),
       U32("advanced_teams_count2"),
       Stmt("flags", "enemy_flags"),
       Stmt("warn_unless_all_read", "") >>

\* "_type", "_path", "_length"
TypeOf(name) == name \o "_type"
PathOf(name) == name \o "_path"
LengthOf(name) == name \o "_length"

ReadPreview(buf, r, name) ==
    LET t == AssignEmpty(Assign(ReadUint32(buf, r), TypeOf(name)), PathOf(name))
    IN  IF t.exc = "" /\ t.dict[TypeOf(name)] = 2
        THEN Assign(ReadCString(buf, t), PathOf(name))
        ELSE t

\* self.base_height = data.read_uint32()/4096: the quotient, kept as a fraction.
ReadBaseHeight(buf, r) ==
    LET v == ReadUint32(buf, r)
    IN  IF v.exc # "" THEN v
        ELSE [v EXCEPT !.dict = SetAttr(@, "base_height", [num |-> v.val, den |-> 4096])]

\* self.unknown6 = data.read_bytes(data.read_uint16()).decode('utf8')
ReadUnknown6(buf, r) ==
    LET n == ReadUint16(buf, r)
    IN  IF n.exc # "" THEN n ELSE Assign(ReadBytes(buf, n, n.val), "unknown6")

\* MapInfoPlayer(pid=..., control=..., color=..., race=..., unknown=...,
\*               start_point=..., ai=..., decal=...)
ReadMapInfoPlayer(buf, r) ==
    LET pid == ReadUint8(buf, r)
        control == ReadUint32(buf, pid)
        color == ReadUint32(buf, control)
        race == ReadCString(buf, color)
        unknown == ReadUint32(buf, race)
        start_point == ReadUint32(buf, unknown)
        ai == ReadUint32(buf, start_point)
        decal == ReadCString(buf, ai)
    IN  IF decal.exc # "" THEN decal
        ELSE [decal EXCEPT !.val =
                 [pid |-> pid.val, control |-> control.val, color |-> color.val,
                  race |-> race.val, unknown |-> unknown.val,
                  start_point |-> start_point.val, ai |-> ai.val,
                  decal |-> decal.val]]

\* for i in range(n): <list>.append(<one item read>), with the list so far.
RECURSIVE ReadPlayers(_, _, _, _)
ReadPlayers(buf, r, n, list) ==
    IF r.exc # "" THEN r
    ELSE IF n = 0 THEN [r EXCEPT !.val = list]
    ELSE LET p == ReadMapInfoPlayer(buf, r)
         IN  ReadPlayers(buf, p, n - 1, IF p.exc = "" THEN Append(list, p.val) ELSE list)

RECURSIVE ReadUint32List(_, _, _, _)
ReadUint32List(buf, r, n, list) ==
    IF r.exc # "" THEN r
    ELSE IF n = 0 THEN [r EXCEPT !.val = list]
    ELSE LET x == ReadUint32(buf, r)
         IN  ReadUint32List(buf, x, n - 1, IF x.exc = "" THEN Append(list, x.val) ELSE list)

\* self.<name> = list(); for i in range(data.read_uint32()): append a uint32
ReadCountedUint32List(buf, r, name) ==
    LET n == ReadUint32(buf, r)
    IN  IF n.exc # "" THEN n
        ELSE Assign(ReadUint32List(buf, n, n.val, <<>>), name)

\* self.<name>_length = data.read_uint32()
\* self.<name> = data.read_uint(int(math.ceil(self.<name>_length/8.0)))
ReadFlags(buf, r, name) ==
    LET n == Assign(ReadUint32(buf, r), LengthOf(name))
    IN  IF n.exc # "" THEN n
        ELSE Assign(ReadUint(buf, n, (n.dict[LengthOf(name)] + 7) \div 8), name)

\* One statement of the constructor.
Step(buf, r, s) ==
    IF s.since > 0 /\ r.dict["version"] < s.since THEN r
    ELSE CASE s.stmt = "uint32" -> Assign(ReadUint32(buf, r), s.name)
           [] s.stmt = "cstring" -> Assign(ReadCString(buf, r), s.name)
           [] s.stmt = "bytes" -> Assign(ReadBytes(buf, r, s.n), s.name)
           [] s.stmt = "preview" -> ReadPreview(buf, r, s.name)
           [] s.stmt = "base_height" -> ReadBaseHeight(buf, r)
           [] s.stmt = "unknown6" -> ReadUnknown6(buf, r)
           [] s.stmt = "players" ->
                  Assign(ReadPlayers(buf, r, r.dict["player_count"], <<>>), s.name)
           [] s.stmt = "uint32list" -> ReadCountedUint32List(buf, r, s.name)
           [] s.stmt = "flags" -> ReadFlags(buf, r, s.name)
           [] s.stmt = "warn_unless_all_read" ->
                  IF Len(buf) # r.pos THEN [r EXCEPT !.log = Append(@, "warn")] ELSE r

\* The statements in order; the first fault ends the run.
RECURSIVE Run(_, _, _)
Run(buf, r, statements) ==
    IF r.exc # "" \/ statements = <<>> THEN r
    ELSE Run(buf, Step(buf, r, Head(statements)), Tail(statements))

\* What the caller of MapInfo(contents) gets: a fault and no object, or the
\* object with the attributes assigned.
Returned(r) ==
    IF r.exc # "" THEN [exc |-> r.exc, log |-> r.log, pos |-> r.pos, dict |-> EmptyDict]
    ELSE [exc |-> "", log |-> r.log, pos |-> r.pos, dict |-> r.dict]

\* data = ByteDecoder(contents, endian='LITTLE')
NewDecoder == [pos |-> 0, exc |-> "", log |-> <<>>, dict |-> EmptyDict, val |-> <<>>]

MapInfoInitWithoutReturn(contents) ==
    LET magic == ReadString(contents, NewDecoder, 4)
    IN  IF magic.exc # "" THEN Returned(magic)
        ELSE IF magic.val # MAGIC
        THEN Returned([magic EXCEPT !.log = Append(@, "warn")])
        ELSE Returned(Run(contents, magic, HeaderStatements \o TailStatements))

MapInfoInitWithoutMagicReturn(contents) ==
    LET magic == ReadString(contents, NewDecoder, 4)
    IN  IF magic.exc # "" THEN Returned(magic)
        ELSE Returned(Run(contents,
                          IF magic.val # MAGIC
                          THEN [magic EXCEPT !.log = Append(@, "warn")]
                          ELSE magic,
                          HeaderStatements))

\* MapInfo(contents)
MapInfoInit(contents) ==
    LET magic == ReadString(contents, NewDecoder, 4)
    IN  IF magic.exc # "" THEN Returned(magic)
        ELSE IF magic.val # MAGIC
        THEN Returned([magic EXCEPT !.log = Append(@, "warn")])
        ELSE Returned(Run(contents, magic, HeaderStatements))

---------------------------------------------------------------------------
(* The records the constructors are given.                                 *)

\* "<region>-S2-<subregion>-<toon_id>"
Handle(r, s, t) == Str(r) \o <<DASH, 83, 50, DASH>> \o Str(s) \o <<DASH>> \o Str(t)

HandleRegions == 0..MaxRegionCode
HandleSubregions == {0, 3}
HandleToonIds == {0, 7, 12345}

WellFormedHandles ==
    {Handle(r, s, t) : r \in HandleRegions, s \in HandleSubregions, t \in HandleToonIds}

\* "1-S2", "x-S2-0-0", "1-S2-x-5", "1-S2-3-", "1-S2-3-7-9"
MalformedHandles ==
    { <<49, 45, 83, 50>>,
      <<120, 45, 83, 50, 45, 48, 45, 48>>,
      <<49, 45, 83, 50, 45, 120, 45, 53>>,
      <<49, 45, 83, 50, 45, 51, 45>> }

Handles == WellFormedHandles \cup MalformedHandles \cup {None, <<>>}

SlotData(toon_handle, team_id, control, observe) ==
    [handicap |-> 100, team_id |-> team_id, control |-> control,
     observe |-> observe, hero |-> <<>>, skin |-> <<>>, mount |-> <<>>,
     toon_handle |-> toon_handle, tandem_leader_user_id |-> None]

SlotDatas ==
    {SlotData(h, t, co[1], co[2]) :
        h \in Handles, t \in {0, 1}, co \in {<<2, 0>>, <<3, 0>>}}

\* "Ann", "Bob"
ANN == <<65, 110, 110>>
BOB == <<66, 111, 98>>

InitData(name) ==
    [clan_tag |-> <<>>, name |-> name, combined_race_levels |-> 0,
     highest_league |-> 8]

InitDatas == {InitData(n) : n \in {ANN, BOB}}

\* "Terran", "Protoss", "Zerg", "Terraner" (localized), "zerg" (in no table), "Random"
TERRAN == <<84, 101, 114, 114, 97, 110>>
PROTOSS == <<80, 114, 111, 116, 111, 115, 115>>
ZERG == <<90, 101, 114, 103>>
TERRANER == <<84, 101, 114, 114, 97, 110, 101, 114>>
LOWER_ZERG == <<122, 101, 114, 103>>
RANDOM == <<82, 97, 110, 100, 111, 109>>

DetailData(name, race, result, region, subregion, uid) ==
    [name |-> name, race |-> race, result |-> result,
     color |-> [r |-> 180, g |-> 20, b |-> 30, a |-> 255],
     bnet |-> [region |-> region, subregion |-> subregion, uid |-> uid]]

DetailDatas ==
    {DetailData(ANN, rr[1], rr[2], region, 3, 7) :
        rr \in {<<TERRAN, 1>>, <<TERRANER, 2>>, <<LOWER_ZERG, 0>>},
        region \in {1, 2, MaxRegionCode}}

\* attribute_data: the lobby attributes of the player, by name.
AttributeDatas == {EmptyDict, "Race" :> RANDOM}

\* An optional record: <<>> when absent, <<record>> when present.
Opt(S) == {<<>>} \cup {<<x>> : x \in S}

---------------------------------------------------------------------------
(* Composition of a participant from the records that are present.         *)

Compose(sid, slot_data, uid, user, pid, detail, attribute_data) ==
    IF user = <<>> /\ detail = <<>>
    THEN [exc |-> "InconsistentInput", cls |-> "", dict |-> EmptyDict]
    ELSE IF user = <<>>
    THEN ComputerInit(sid, slot_data, pid, detail[1], attribute_data)
    ELSE IF detail = <<>>
    THEN ObserverInit(sid, slot_data, uid, user[1], pid)
    ELSE ParticipantInit(sid, slot_data, uid, user[1], pid, detail[1], attribute_data)

\* The constructor call of one participant: runs once on the records drawn.
ComposeParticipant ==
    /\ participant.slot # <<>>
    /\ participant.ret = <<>>
    /\ participant' =
           [participant EXCEPT !.ret =
               <<Compose(3, participant.slot[1], 2, participant.user, 1,
                         participant.detail, participant.attrs[1])>>]
    /\ UNCHANGED <<attribute, mapinfo, team, teamread>>

\* Raw attribute values: every string of at most MaxRaw characters over
\* NUL, space, "M" and "E".
RawChars == {NUL, SPACE, 77, 69}

RawValues == UNION {[1..n -> RawChars] : n \in 0..MaxRaw}

\* 3004 is in LOBBY_PROPERTIES, 999 is not.
AttrIds == {3004, 999}

\* The constructor call of one Attribute: runs once on the values drawn.
NewAttribute ==
    /\ attribute # <<>>
    /\ attribute[1].ret = <<>>
    /\ attribute' =
           <<[attribute[1] EXCEPT !.ret =
               <<AttributeInit(attribute[1].header, attribute[1].id,
                               attribute[1].player, attribute[1].value)>>]>>
    /\ UNCHANGED <<participant, mapinfo, team, teamread>>

---------------------------------------------------------------------------
(* MapInfo buffers: the bytes of a MapInfo document written from its       *)
(* fields, whole or cut short.                                             *)

\* n as k little-endian bytes.
RECURSIVE LE(_, _)
LE(n, k) == IF k = 0 THEN <<>> ELSE <<n % 256>> \o LE(n \div 256, k - 1)

\* n as k bytes, the most significant first.
RECURSIVE BE(_, _)
BE(n, k) == IF k = 0 THEN <<>> ELSE BE(n \div 256, k - 1) \o <<n % 256>>

CString(str) == str \o <<NUL>>

\* The concatenation of a sequence of byte strings.
Concat(parts) == Join(<<>>, parts)

Repeat(byte, n) == [i \in 1..n |-> byte]

\* A preview descriptor: the type, and the path only for type 2.
PreviewBytes(type, path) == LE(type, 4) \o (IF type = 2 THEN CString(path) ELSE <<>>)

\* "Dark", "Jngl", "s.tga", "l.tga", "load.dds", "Terr"
FOG == <<68, 97, 114, 107>>
TILES == <<74, 110, 103, 108>>
SMALL_PATH == <<115, 46, 116, 103, 97>>
LARGE_PATH == <<108, 46, 116, 103, 97>>
LOAD_PATH == <<108, 111, 97, 100, 46, 100, 100, 115>>
TERR == <<84, 101, 114, 114>>

\* The bytes from the magic to the player count.
HeaderBytes(P) ==
    Concat(<<
        P.magic, LE(P.version, 4),
        IF P.version >= 24 THEN LE(1, 4) \o LE(2, 4) ELSE <<>>,
        LE(176, 4), LE(184, 4),
        PreviewBytes(P.small_preview_type, SMALL_PATH),
        PreviewBytes(P.large_preview_type, LARGE_PATH),
        IF P.version >= 31 THEN CString(<<>>) \o LE(4, 4) ELSE <<>>,
        LE(5, 4), CString(FOG), CString(TILES),
        LE(7, 4), LE(4, 4), LE(169, 4), LE(180, 4),
        LE(8192, 4),
        LE(P.load_screen_type, 4),
        CString(IF P.load_screen_type = 1 THEN LOAD_PATH ELSE <<>>),
        LE(2, 2) \o <<117, 54>>,
        LE(0, 4), LE(4, 4), LE(0, 4), LE(0, 4), LE(800, 4), LE(600, 4),
        LE(P.data_flags, 4), LE(7, 4),
        IF P.version >= 25 THEN Repeat(8, 8) ELSE <<>>,
        IF P.version >= 31 THEN Repeat(9, 9) ELSE <<>>,
        IF P.version >= 32 THEN Repeat(10, 4) ELSE <<>>,
        LE(P.player_count, 4) >>)

PlayerBytes(i) ==
    Concat(<< <<i>>, LE(1, 4), LE(i, 4), CString(TERR), LE(0, 4), LE(i, 4),
              LE(0, 4), CString(<<>>) >>)

\* The number of pairs (i, j), i < j, among n.
Pairs(n) == (n * (n - 1)) \div 2

\* The bytes after the player count: the players, the start locations and
\* the alliance and enemy flags over the pairs of them.
TailBytes(P) ==
    LET n == P.player_count
        flagBytes == (Pairs(n) + 7) \div 8
    IN  Concat(<<
            Concat([i \in 1..n |-> PlayerBytes(i)]),
            LE(n, 4), Concat([i \in 1..n |-> LE(i, 4)]),
            LE(n, 4),
            LE(Pairs(n), 4), BE(0, flagBytes),
            LE(0, 4), LE(0, 4), LE(0, 4),
            LE(Pairs(n), 4), BE(P.enemy_flags % (2 ^ Pairs(n)), flagBytes) >>)

DocumentBytes(P) == HeaderBytes(P) \o (IF P.tail THEN TailBytes(P) ELSE <<>>)

Versions == 23..MaxVersion

\* "MapX", "mapI"
BadMagics == { <<77, 97, 112, 88>>, <<109, 97, 112, 73>> }

MapParams(magics, versions, smalls, larges, loads, counts, tails) ==
    [magic : magics, version : versions, small_preview_type : smalls,
     large_preview_type : larges, load_screen_type : loads, data_flags : {3},
     player_count : counts, enemy_flags : {1}, tail : tails]

\* Whole documents of every version, whole documents with a wrong magic, and
\* the documents that are also cut short at every length.
WholeParams == MapParams({MAGIC}, Versions, {0, 1, 2}, {0, 2}, {0, 1}, 0..MaxPlayers, BOOLEAN)
BadMagicParams == MapParams(BadMagics, {23, MaxVersion}, {0, 2}, {2}, {1}, {MaxPlayers}, BOOLEAN)
CutParams == MapParams({MAGIC} \cup BadMagics, {23, MaxVersion}, {2}, {0}, {1}, {1}, {FALSE})

MapInputs ==
    {[params |-> P, contents |-> DocumentBytes(P)] : P \in WholeParams \cup BadMagicParams}
    \cup UNION {{[params |-> P, contents |-> SubSeq(DocumentBytes(P), 1, n)] :
                    n \in 0..Len(DocumentBytes(P))} : P \in CutParams}

\* The constructor call of one MapInfo: runs once on the contents drawn.
NewMapInfo ==
    /\ mapinfo # <<>>
    /\ mapinfo[1].ret = <<>>
    /\ mapinfo' = <<[mapinfo[1] EXCEPT !.ret = <<MapInfoInit(mapinfo[1].contents)>>]>>
    /\ UNCHANGED <<participant, attribute, team, teamread>>

\* The players that are put on a team: Participants and Computers built by
\* the constructors.  Ann plays Terran (localized name) with toon_id 10, Bob
\* Protoss with toon_id 9, Cy picked Random and plays Protoss on region 2,
\* and the Computer plays "zerg".
RosterInputs ==
    { [user |-> <<InitData(ANN)>>, attrs |-> EmptyDict,
       handle |-> Handle(1, 3, 10),
       detail |-> DetailData(ANN, TERRANER, 1, 1, 3, 10)],
      [user |-> <<InitData(BOB)>>, attrs |-> EmptyDict,
       handle |-> Handle(1, 3, 9),
       detail |-> DetailData(BOB, PROTOSS, 2, 1, 3, 9)],
      [user |-> <<InitData(<<67, 121>>)>>, attrs |-> ("Race" :> RANDOM),
       handle |-> Handle(2, 3, 9),
       detail |-> DetailData(<<67, 121>>, PROTOSS, 0, 2, 3, 9)],
      [user |-> <<>>, attrs |-> EmptyDict,
       handle |-> None,
       detail |-> DetailData(<<65, 73>>, LOWER_ZERG, 0, 0, 0, 0)] }

Roster ==
    {[cls |-> r.cls, dict |-> r.dict] :
        r \in {Compose(3, SlotData(i.handle, 0, IF i.user = <<>> THEN 3 ELSE 2, 0),
                       2, i.user, 1, <<i.detail>>, i.attrs) : i \in RosterInputs}}

\* team.players.append(player), done by the code that fills the teams.
AddPlayer ==
    /\ team # <<>>
    /\ Len(team[1].players) < MaxTeam
    /\ \E p \in Roster :
          team' = <<[team[1] EXCEPT !.players = Append(@, p)]>>
    /\ teamread' = <<>>
    /\ UNCHANGED <<participant, attribute, mapinfo>>

\* team.lineup
ReadLineup ==
    /\ team # <<>>
    /\ teamread' = <<[op |-> "lineup", ret |-> TeamLineup(team[1])]>>
    /\ UNCHANGED <<participant, attribute, mapinfo, team>>

\* team.hash
ReadHash ==
    /\ team # <<>>
    /\ teamread' = <<[op |-> "hash", ret |-> TeamHash(team[1])]>>
    /\ UNCHANGED <<participant, attribute, mapinfo, team>>

---------------------------------------------------------------------------
NoParticipant ==
    [slot |-> <<>>, user |-> <<>>, detail |-> <<>>, attrs |-> <<>>, ret |-> <<>>]

InitCompose ==
    /\ \E slot_data \in SlotDatas, user \in Opt(InitDatas),
          detail \in Opt(DetailDatas), attribute_data \in AttributeDatas :
          participant = [slot |-> <<slot_data>>, user |-> user, detail |-> detail,
                         attrs |-> <<attribute_data>>, ret |-> <<>>]
    /\ attribute = <<>>
    /\ mapinfo = <<>>
    /\ team = <<>>
    /\ teamread = <<>>

InitAttribute ==
    /\ \E attr_id \in AttrIds, value \in RawValues :
          attribute = <<[header |-> 0, id |-> attr_id, player |-> 1,
                         value |-> value, ret |-> <<>>]>>
    /\ participant = NoParticipant
    /\ mapinfo = <<>>
    /\ team = <<>>
    /\ teamread = <<>>

InitTeam ==
    /\ team = <<TeamInit(1)>>
    /\ teamread = <<>>
    /\ participant = NoParticipant
    /\ attribute = <<>>
    /\ mapinfo = <<>>

InitMapInfo ==
    /\ \E i \in MapInputs :
          mapinfo = <<[params |-> i.params, contents |-> i.contents, ret |-> <<>>]>>
    /\ participant = NoParticipant
    /\ attribute = <<>>
    /\ team = <<>>
    /\ teamread = <<>>

NextCompose == ComposeParticipant

SpecCompose == InitCompose /\ [][NextCompose]_vars

NextAttribute == NewAttribute

SpecAttribute == InitAttribute /\ [][NextAttribute]_vars

NextTeam == AddPlayer \/ ReadLineup \/ ReadHash

SpecTeam == InitTeam /\ [][NextTeam]_vars

NextMapInfo == NewMapInfo

SpecMapInfo == InitMapInfo /\ [][NextMapInfo]_vars

\* The whole module: one of the four kinds of object is built and used.
Init == InitCompose \/ InitAttribute \/ InitTeam \/ InitMapInfo

Next == ComposeParticipant \/ NewAttribute \/ AddPlayer \/ ReadLineup \/ ReadHash
        \/ NewMapInfo

Spec == Init /\ [][Next]_vars

---------------------------------------------------------------------------
(* Properties of the composition.                                          *)

Composed == participant.ret # <<>>
Ret == participant.ret[1]
SlotHandle == participant.slot[1].toon_handle
UserGiven == participant.user # <<>>
DetailGiven == participant.detail # <<>>

\* The capabilities of an object, read from the attributes it carries.
SlotBound(d) == {"sid", "team_id", "toon_handle", "region"} \subseteq DOMAIN d
AccountBound(d) == {"uid", "name", "init_data"} \subseteq DOMAIN d
ResultBound(d) == {"pid", "result", "play_race", "detail_data"} \subseteq DOMAIN d

ExampleHandle == <<49, 45, 83, 50, 45, 51, 45, 49, 50, 51, 52, 53>>

\* The fields Entity.__init__ derives from the handle, as the object shows
\* them when no detail record overrides them (an Observer).
EntityFieldsAre(region, subregion, toon_id) ==
    /\ Ret.exc = ""
    /\ Ret.dict["region"] = region /\ Ret.dict["gateway"] = region
    /\ Ret.dict["subregion"] = subregion /\ Ret.dict["toon_id"] = toon_id

\* C3: a handle "<region>-S2-<subregion>-<toon_id>" with a region code of the
\* region table gives region = the table's name for the code, subregion and
\* toon_id the integers written in the third and fourth parts ("1-S2-3-12345"
\* gives the name of region 1, 3 and 12345); a None or empty handle gives
\* the name of region 0, subregion 0 and toon_id 0 without a fault.
C3_HandleParsed ==
    (Composed /\ UserGiven /\ ~ DetailGiven) =>
        /\ \A r \in HandleRegions \cap DOMAIN GATEWAY_LOOKUP, s \in HandleSubregions,
              t \in HandleToonIds :
              SlotHandle = Handle(r, s, t) =>
                  EntityFieldsAre(GATEWAY_LOOKUP[r], s, t)
        /\ SlotHandle = ExampleHandle => EntityFieldsAre(GATEWAY_LOOKUP[1], 3, 12345)
        /\ (SlotHandle = None \/ SlotHandle = <<>>) =>
              EntityFieldsAre(GATEWAY_LOOKUP[0], 0, 0)

C3_Witness ==
    /\ Composed /\ UserGiven /\ ~ DetailGiven
    /\ SlotHandle = ExampleHandle
    /\ Ret.cls = "Observer" /\ Ret.dict["toon_id"] = 12345 /\ Ret.dict["subregion"] = 3

\* A handle that is not four dash-separated parts with numeric first, third
\* and fourth parts.
Malformed(handle) ==
    LET parts == Split(handle, DASH)
    IN  \/ Len(parts) < 4
        \/ ~ IsInt(parts[1]) \/ ~ IsInt(parts[3]) \/ ~ IsInt(parts[4])

\* C4: parsing the account handle never fails, whatever the handle: a
\* malformed handle (too few parts, or a non-numeric part) is parsed as the
\* zero handle instead of raising.
C4_HandleParsingNeverFails ==
    (Composed /\ UserGiven /\ ~ DetailGiven) =>
        /\ Ret.exc \notin {"ValueError", "IndexError"}
        /\ (~ Falsy(SlotHandle) /\ Malformed(SlotHandle)) =>
              EntityFieldsAre(GATEWAY_LOOKUP[0], 0, 0)

\* C9: for a participant built from slot data that carry an account handle
\* and from detail data, the region,
\* subregion and toon_id derived from the handle are those derived from the
\* detail record, so the final fields are the same whichever is applied last.
C9_HandleAndDetailAgree ==
    (Composed /\ UserGiven /\ DetailGiven /\ ~ Falsy(SlotHandle) /\ Ret.exc = "") =>
        LET fromHandle == EntityInit(EmptyDict, 3, participant.slot[1]).dict
            fromDetail == PlayerInit(EmptyDict, 1, participant.detail[1],
                                     participant.attrs[1]).dict
        IN  /\ fromHandle["region"] = fromDetail["region"]
            /\ \A a \in {"region", "gateway", "subregion", "toon_id"} :
                  Ret.dict[a] = fromHandle[a] /\ Ret.dict[a] = fromDetail[a]

---------------------------------------------------------------------------
(* Properties of Attribute.                                                *)

Resolved == attribute # <<>> /\ attribute[1].ret # <<>>
AttrRet == attribute[1].ret[1]

\* "\x00\x00ME" and "EM"
RawME == <<0, 0, 77, 69>>
KeyEM == <<69, 77>>

\* C7: for a known attribute id the lookup key is the raw value reversed and
\* then stripped of leading and trailing NUL and space (the same key as
\* stripping and then reversing, which is what the code does), "\x00\x00ME"
\* is looked up as "EM", and a key that is not in the id's value table is a
\* fault (KeyError, no attribute built), never a default value.
C7_ReversedStrippedKey ==
    (Resolved /\ attribute[1].id \in DOMAIN LOBBY_PROPERTIES) =>
        LET lookup == LOBBY_PROPERTIES[attribute[1].id].lookup
            key == Strip(Reverse(attribute[1].value), {NUL, SPACE})
        IN  /\ AttrKey(attribute[1].value) = key
            /\ attribute[1].value = RawME => key = KeyEM
            /\ key \in DOMAIN lookup =>
                  AttrRet.exc = "" /\ AttrRet.dict["value"] = lookup[key]
            /\ key \notin DOMAIN lookup =>
                  AttrRet.exc = "KeyError" /\ AttrRet.dict = EmptyDict

C7_Witness ==
    /\ Resolved /\ attribute[1].id = 3004 /\ attribute[1].value = RawME
    /\ AttrRet.exc = "" /\ AttrRet.dict["value"] = <<77, 101, 100, 105, 117, 109>>

---------------------------------------------------------------------------
(* Properties of Team.                                                     *)

Players == team[1].players
LineupRead == team # <<>> /\ teamread # <<>> /\ teamread[1].op = "lineup"
HashRead == team # <<>> /\ teamread # <<>> /\ teamread[1].op = "hash"

\* A sequence of strings in nondecreasing lexicographic order.
Ascending(xs) == \A i \in 1..(Len(xs) - 1) : ~ StrLess(xs[i + 1], xs[i])

\* xs rearranged by the permutation f of its indices.
Rearranged(xs, f) == [i \in 1..Len(xs) |-> xs[f[i]]]

\* The number of players whose played race begins (in upper case) with c.
PlayersWithInitial(c) ==
    Cardinality({i \in 1..Len(Players) : Upper(Players[i].dict["play_race"][1]) = c})

Occurrences(s, c) == Cardinality({i \in 1..Len(s) : s[i] = c})

C5_HashOfSortedUrls ==
    HashRead =>
        /\ teamread[1].ret.exc = ""
        /\ LET urls == [i \in 1..Len(Players) |-> Url(Players[i].dict)]
           IN  \E f \in Permutations(1..Len(Players)) :
                   /\ Ascending(Rearranged(urls, f))
                   /\ teamread[1].ret.value =
                          Sha256Hex(Join(<<44>>, Rearranged(urls, f)))
        /\ \A f \in Permutations(1..Len(Players)) :
              TeamHash([team[1] EXCEPT !.players = Rearranged(Players, f)]) =
                  teamread[1].ret

\* The same statement for teams whose members all carry a profile URL.
HashOfSortedUrlsOfUsers ==
    (HashRead /\ \A i \in 1..Len(Players) : Players[i].cls \in UserClasses) =>
        C5_HashOfSortedUrls

---------------------------------------------------------------------------
(* Properties of MapInfo.                                                  *)

Decoded == mapinfo # <<>> /\ mapinfo[1].ret # <<>>
Contents == mapinfo[1].contents
MapRet == mapinfo[1].ret[1]

\* The buffer has four first bytes, and they are or are not 'MapI'.
ValidMagic == Len(Contents) >= 4 /\ SubSeq(Contents, 1, 4) = MAGIC
WrongMagic == Len(Contents) >= 4 /\ SubSeq(Contents, 1, 4) # MAGIC

\* The attributes assigned by the statements after the player count.
TailAttributes ==
    {"players", "start_locations", "start_location_used", "alliance_flags_length",
     "alliance_flags", "advanced_start_locations", "advanced_teams_flags",
     "advanced_teams_count2", "enemy_flags_length", "enemy_flags"}

\* C2: on a buffer whose first four bytes are not 'MapI' the decoding stops
\* right after the magic: nothing is raised, the invalid file is reported,
\* the cursor stays behind the four bytes read and no field of the
\* descriptor is assigned.
C2_WrongMagicStops ==
    (Decoded /\ WrongMagic) =>
        /\ MapRet.exc = ""
        /\ MapRet.log = <<"warn">>
        /\ MapRet.pos = 4
        /\ MapRet.dict = EmptyDict

C2_Witness ==
    /\ Decoded /\ WrongMagic /\ Len(Contents) > 100
    /\ LittleEndian(SubSeq(Contents, 5, 8)) = 32
    /\ MapRet.exc = "" /\ MapRet.pos = 4 /\ "version" \notin DOMAIN MapRet.dict

\* The length of the fields from the magic to the player count in the
\* document the buffer was written from.
HeaderLength == Len(HeaderBytes(mapinfo[1].params))

---------------------------------------------------------------------------
(* Unknown codes.                                                          *)

\* C8: an unknown code is never fatal: an attribute id that is not in the
\* lobby-property table gives the name "Unknown" and the value None, a race
\* that is not in the race table is the played race unchanged, and a region
\* code that is not in the region table, in the handle or in the detail
\* record, raises nothing.
C8_UnknownCodeNeverFatal ==
    /\ (Resolved /\ attribute[1].id \notin DOMAIN LOBBY_PROPERTIES) =>
          /\ AttrRet.exc = ""
          /\ AttrRet.dict["name"] = UNKNOWN /\ AttrRet.dict["value"] = None
    /\ (Composed /\ DetailGiven /\ Ret.exc = ""
            /\ participant.detail[1].race \notin DOMAIN LOCALIZED_RACES) =>
          Ret.dict["play_race"] = participant.detail[1].race
    /\ Composed => Ret.exc # "KeyError"

---------------------------------------------------------------------------
(* The paths of the previews and of the loading screen.                    *)

\* The decoder after the magic and the first k statements of the header.
HeaderPrefix(k) ==
    Run(Contents, ReadString(Contents, NewDecoder, 4), SubSeq(HeaderStatements, 1, k))

\* The place of the statement that assigns name.
IndexOf(name) ==
    CHOOSE k \in 1..Len(HeaderStatements) : HeaderStatements[k].name = name

\* The number of bytes of the buffer that the statement assigning name reads.
Consumed(name) == HeaderPrefix(IndexOf(name)).pos - HeaderPrefix(IndexOf(name) - 1).pos

\* The bytes read for a path that is text: the text and its closing NUL.
PathLength(name) == Len(MapRet.dict[name]) + 1

\* C12: for the small preview, the large preview and the loading screen the
\* type is read first, and the path is read from the buffer if and only if
\* the type is the custom one (2 for the previews, 1 for the loading screen);
\* for any other type no byte is read for the path, which stays empty.
C12_PathReadIffCustomType ==
    (Decoded /\ ValidMagic /\ MapRet.exc = "") =>
        /\ \A name \in {"small_preview", "large_preview"} :
              IF MapRet.dict[TypeOf(name)] = 2
              THEN Consumed(name) = 4 + PathLength(PathOf(name))
              ELSE Consumed(name) = 4 /\ MapRet.dict[PathOf(name)] = <<>>
        /\ Consumed("load_screen_type") = 4
        /\ IF MapRet.dict["load_screen_type"] = 1
           THEN Consumed("load_screen_path") = PathLength("load_screen_path")
           ELSE Consumed("load_screen_path") = 0 /\ MapRet.dict["load_screen_path"] = <<>>

\* The part of C12 about the two previews.
PreviewPathReadIffCustomType ==
    (Decoded /\ ValidMagic /\ MapRet.exc = "") =>
        \A name \in {"small_preview", "large_preview"} :
            IF MapRet.dict[TypeOf(name)] = 2
            THEN Consumed(name) = 4 + PathLength(PathOf(name))
            ELSE Consumed(name) = 4 /\ MapRet.dict[PathOf(name)] = <<>>

---------------------------------------------------------------------------
(* The version gates.                                                      *)

Present(name) == name \in DOMAIN MapRet.dict
HeaderDecoded == Decoded /\ ValidMagic /\ MapRet.exc = ""

\* C13 as stated: the optional fields come in three groups, each under one
\* threshold: unknown1 with unknown2, unknown3 with unknown4, and the byte
\* blocks unknown8, unknown9 and unknown10, which are all there or all absent.
C13_ThreeGates ==
    HeaderDecoded =>
        /\ Present("unknown1") <=> Present("unknown2")
        /\ Present("unknown3") <=> Present("unknown4")
        /\ Present("unknown8") <=> Present("unknown9")
        /\ Present("unknown9") <=> Present("unknown10")

\* C13, amended: the optional fields are under four thresholds.  unknown1
\* and unknown2 are read from version 0x18, unknown3 and unknown4 from 0x1f,
\* and the byte blocks each under its own threshold: the 8 bytes of unknown8
\* from 0x19, the 9 bytes of unknown9 from 0x1f, the 4 bytes of unknown10
\* from 0x20; so a later block is never there without the earlier ones.
C13_FourThresholds ==
    HeaderDecoded =>
        LET version == MapRet.dict["version"]
        IN  /\ Present("unknown1") <=> version >= 24
            /\ Present("unknown2") <=> version >= 24
            /\ Present("unknown3") <=> version >= 31
            /\ Present("unknown4") <=> version >= 31
            /\ Present("unknown8") <=> version >= 25
            /\ Present("unknown9") <=> version >= 31
            /\ Present("unknown10") <=> version >= 32
            /\ Present("unknown8") => Len(MapRet.dict["unknown8"]) = 8
            /\ Present("unknown9") => Len(MapRet.dict["unknown9"]) = 9
            /\ Present("unknown10") => Len(MapRet.dict["unknown10"]) = 4
            /\ Present("unknown10") => Present("unknown9")
            /\ Present("unknown9") => Present("unknown8")
            /\ MapRet.pos = HeaderLength
            /\ MapRet.dict["player_count"] = mapinfo[1].params.player_count

\* A document of version 0x19: the 8-byte block alone.
C13_Witness ==
    /\ HeaderDecoded /\ MapRet.dict["version"] = 25
    /\ Present("unknown8") /\ ~ Present("unknown9") /\ ~ Present("unknown10")
    /\ MapRet.dict["unknown8"] = Repeat(8, 8)

---------------------------------------------------------------------------
(* Team.hash with a Computer on the team.                                  *)

HasComputer(t) == \E i \in 1..Len(t.players) : t.players[i].cls = "Computer"
AllAccountBound(t) == \A i \in 1..Len(t.players) : t.players[i].cls \in UserClasses

\* C14: a read of Team.hash gives a digest exactly when every member is an
\* Observer or a Participant.  A Computer that was appended stays a member,
\* and from then on every read of Team.hash raises while every read of
\* Team.lineup gives the lineup.
C14_HashFaultsWithComputer ==
    [][ team # <<>> /\ team' # <<>> =>
          /\ HasComputer(team[1]) => HasComputer(team'[1])
          /\ (teamread' # <<>> /\ teamread'[1].op = "hash") =>
                /\ teamread'[1].ret.exc = "" <=> AllAccountBound(team'[1])
                /\ teamread'[1].ret.exc = "" =>
                      teamread'[1].ret.value = Sha256Hex(Tail(teamread'[1].ret.value))
                /\ HasComputer(team'[1]) =>
                      /\ teamread'[1].ret.exc = "AttributeError"
                      /\ teamread'[1].ret.value = <<>>
          /\ (teamread' # <<>> /\ teamread'[1].op = "lineup" /\ HasComputer(team'[1])) =>
                /\ teamread'[1].ret.exc = ""
                /\ Len(teamread'[1].ret.value) = Len(team'[1].players) ]_vars

\* A Computer was appended first and a Participant after it; the hash is read.
C14_Witness ==
    /\ HashRead /\ Len(Players) >= 2
    /\ Players[1].cls = "Computer" /\ Players[2].cls = "Participant"
    /\ teamread[1].ret.exc = "AttributeError"

=============================================================================
